---- MODULE Spec2Model ----
(***************************************************************************)
(* A model of gitlab-recurring-issues (src/main.go): one scheduled run of  *)
(* main (configuration, getLastRunTime, the filepath.Walk over the issue   *)
(* templates with processIssueFile, parseMetadata and createIssue), the    *)
(* library calls it makes (cronexpr.Parse / Expression.Next, the YAML      *)
(* front-matter decoding, time.ParseDuration, gitlab.ISOTime), and a       *)
(* sequence of scheduled runs against the pipeline history.                *)
(*                                                                         *)
(* Time is counted in ticks of a reduced calendar: a year has DaysPerYear  *)
(* days, a day has SlotsPerDay ticks ("24h" is one day), year 0 is 1970    *)
(* and year MaxYear is the last year cronexpr supports (2099).             *)
(***************************************************************************)
EXTENDS Integers, Sequences, FiniteSets, TLC

VARIABLES
    env,          \* the process environment: setting name -> value ("" = unset)
    pc,           \* position of main: "main", "lastrun", "walk", "done", "fatal", "panic"
    fatalMsg,     \* what log.Fatal printed ("" while none)
    apiResp,      \* the pipeline/job listing the API answered getLastRunTime with
    lastRun,      \* result of getLastRunTime: [kind, time]
    visited,      \* number of directory entries the walk has handed to processIssueFile
    now,          \* the wall clock (time.Now())
    issues,       \* issues created in the tracker, in creation order
    last,         \* outcome of the latest processIssueFile call
    runs,         \* scheduled runs completed so far: [check, finish] each
    arg,          \* input of the pure function under check
    ret           \* its result

vars == <<env, pc, fatalMsg, apiResp, lastRun, visited, now, issues, last, runs, arg, ret>>

----------------------------------------------------------------------------
(* Bounds of the model *)

MaxYear == 2
DaysPerYear == 2
SlotsPerDay == 2
MaxFiles == 2
MaxPipelines == 2
MaxJobs == 2
MaxEntries == 2
MaxRuns == 3

----------------------------------------------------------------------------
(* The calendar *)

YearLen == DaysPerYear * SlotsPerDay
CalendarLen == (MaxYear + 1) * YearLen

\* time.Unix(0, 0)
Epoch == 0

\* time.Time{}: year 1, long before the epoch
ZeroTime == Epoch - CalendarLen

Years == 0 .. MaxYear
Days == 0 .. (DaysPerYear - 1)
Slots == 0 .. (SlotsPerDay - 1)
Times == Epoch .. (Epoch + CalendarLen - 1)

Year(t) == (t - Epoch) \div YearLen
Day(t) == ((t - Epoch) % YearLen) \div SlotsPerDay
Slot(t) == (t - Epoch) % SlotsPerDay
Date(y, d, s) == Epoch + (y * DaysPerYear + d) * SlotsPerDay + s

IsZero(t) == t = ZeroTime

\* t.Before(u)
Before(t, u) == t < u

Min(S) == CHOOSE x \in S : \A y \in S : x <= y

----------------------------------------------------------------------------
(* cronexpr: an expression is the list of values each field admits *)

Expressions ==
    [years : SUBSET Years \ {{}}, days : SUBSET Days \ {{}}, slots : SUBSET Slots \ {{}}]

\* cronexpr.Parse on the crontab strings of the model
cronexprParse(s) ==
    CASE s = "@daily" ->
            [err |-> FALSE, expr |-> [years |-> Years, days |-> Days, slots |-> {0}]]
      [] s = "@yearly" ->
            [err |-> FALSE, expr |-> [years |-> Years, days |-> {0}, slots |-> {0}]]
      [] s = "0 * * * *" ->
            [err |-> FALSE, expr |-> [years |-> Years, days |-> Days, slots |-> Slots]]
      [] s = "0 0 1 1 * 1970" ->
            [err |-> FALSE, expr |-> [years |-> {0}, days |-> {0}, slots |-> {0}]]
      [] s = "0 0 1 1 * 2099" ->
            [err |-> FALSE, expr |-> [years |-> {MaxYear}, days |-> {0}, slots |-> {0}]]
      [] OTHER ->
            [err |-> TRUE, expr |-> [years |-> Years, days |-> Days, slots |-> Slots]]

\* expr.nextYear(t)
nextYear(e, t) ==
    LET ys == {y \in e.years : y > Year(t)}
    IN  IF ys = {} THEN ZeroTime ELSE Date(Min(ys), Min(e.days), Min(e.slots))

\* expr.nextDayOfMonth(t)
nextDay(e, t) ==
    LET ds == {d \in e.days : d > Day(t)}
    IN  IF ds = {} THEN nextYear(e, t) ELSE Date(Year(t), Min(ds), Min(e.slots))

\* expr.nextSecond(t)
nextSlot(e, t) ==
    LET ss == {s \in e.slots : s > Slot(t)}
    IN  IF ss = {} THEN nextDay(e, t) ELSE Date(Year(t), Day(t), Min(ss))

\* A Next that takes a matching reference time as its own next occurrence
NextNotStrict(e, fromTime) ==
    IF IsZero(fromTime) THEN fromTime
    ELSE IF {y \in e.years : y >= Year(fromTime)} = {} THEN ZeroTime
    ELSE IF Year(fromTime) \notin e.years THEN nextYear(e, fromTime)
    ELSE IF {d \in e.days : d >= Day(fromTime)} = {} THEN nextYear(e, fromTime)
    ELSE IF Day(fromTime) \notin e.days THEN nextDay(e, fromTime)
    ELSE IF {s \in e.slots : s >= Slot(fromTime)} = {} THEN nextDay(e, fromTime)
    ELSE IF Slot(fromTime) \in e.slots THEN fromTime
    ELSE nextSlot(e, fromTime)

\* expr.Next(fromTime): field by field, the first field that does not match
\* decides which field is advanced
Next(e, fromTime) ==
    IF IsZero(fromTime) THEN fromTime
    ELSE IF {y \in e.years : y >= Year(fromTime)} = {} THEN ZeroTime
    ELSE IF Year(fromTime) \notin e.years THEN nextYear(e, fromTime)
    ELSE IF {d \in e.days : d >= Day(fromTime)} = {} THEN nextYear(e, fromTime)
    ELSE IF Day(fromTime) \notin e.days THEN nextDay(e, fromTime)
    ELSE IF {s \in e.slots : s >= Slot(fromTime)} = {} THEN nextDay(e, fromTime)
    ELSE nextSlot(e, fromTime)

\* t is an occurrence of e
Matches(e, t) == Year(t) \in e.years /\ Day(t) \in e.days /\ Slot(t) \in e.slots

----------------------------------------------------------------------------
(* Values of the variables a specification does not use *)

NoEnv == [s \in {} |-> ""]
NoResp == [err |-> FALSE, pipelines |-> <<>>]
NoLastRun == [kind |-> "none", time |-> Epoch]
NoLast == [outcome |-> "none"]

IdleMain ==
    /\ env = NoEnv /\ fatalMsg = "" /\ apiResp = NoResp /\ lastRun = NoLastRun
    /\ visited = 0 /\ now = Epoch /\ issues = <<>> /\ last = NoLast /\ runs = <<>>

mainVars == <<env, fatalMsg, apiResp, lastRun, visited, now, issues, last, runs>>

----------------------------------------------------------------------------
(* cronExpression.Next(lastTime) as a function of its inputs *)

InitCron ==
    /\ IdleMain
    /\ pc = "call"
    /\ arg \in [expr : Expressions, from : Times]
    /\ ret = <<>>

CallNext ==
    /\ pc = "call"
    /\ ret' = <<Next(arg.expr, arg.from)>>
    /\ pc' = "ret"
    /\ UNCHANGED <<mainVars, arg>>

NextCron == CallNext

SpecCron == InitCron /\ [][NextCron]_vars

Daily == cronexprParse("@daily").expr

\* the occurrences of arg.expr strictly after the reference time
Future == {t \in Times : t > arg.from /\ Matches(arg.expr, t)}

\* C7: for a reference time R, the occurrence computed for an expression that
\* has an occurrence after R is the first occurrence strictly after R (never R
\* itself), and for @daily it is at most one day (24h) after R.
C7_NextIsFirstStrictlyAfter ==
    (pc = "ret" /\ Future # {}) =>
        /\ ret[1] > arg.from
        /\ Matches(arg.expr, ret[1])
        /\ \A t \in Times : (arg.from < t /\ t < ret[1]) => ~Matches(arg.expr, t)
        /\ (arg.expr = Daily => ret[1] - arg.from <= SlotsPerDay)

\* C7: the reference time is itself an occurrence of @daily and the next one is a day later
C7_Witness ==
    /\ pc = "ret"
    /\ arg.expr = Daily
    /\ Matches(arg.expr, arg.from)
    /\ ret[1] = arg.from + SlotsPerDay

----------------------------------------------------------------------------
(* The template: YAML front matter and body; type metadata *)

\* YAML nodes: a string scalar, a boolean scalar, a timestamp scalar, a flow list
Str(x) == [str |-> x]
Bool(b) == [bool |-> b]
Stamp(t) == [time |-> t]
List(l) == [list |-> l]

IsStr(n) == "str" \in DOMAIN n
IsBool(n) == "bool" \in DOMAIN n
IsStamp(n) == "time" \in DOMAIN n
IsList(n) == "list" \in DOMAIN n

\* the text of a scalar node
Raw(n) ==
    IF IsStr(n) THEN n.str
    ELSE IF IsBool(n) THEN (IF n.bool THEN "true" ELSE "false")
    ELSE ToString(n.time)

\* a nil []string and a decoded one
NilList == [isNil |-> TRUE, elems |-> <<>>]
Slice(l) == [isNil |-> FALSE, elems |-> l]

\* new(metadata): every field at its zero value
ZeroMetadata ==
    [Title |-> "", Description |-> "", Confidential |-> FALSE,
     Assignees |-> NilList, Labels |-> NilList, DueIn |-> "", Crontab |-> "",
     NextTime |-> ZeroTime]

\* The key each field of metadata is decoded from: its yaml tag, and for a
\* field without one (NextTime) the lower-cased field name
FieldOf(key) ==
    CASE key = "title" -> "Title"
      [] key = "duein" -> "DueIn"
      [] key = "crontab" -> "Crontab"
      [] key = "confidential" -> "Confidential"
      [] key = "assignees" -> "Assignees"
      [] key = "labels" -> "Labels"
      [] key = "nexttime" -> "NextTime"
      [] OTHER -> "-"

\* yaml decoding of one mapping entry into the struct: an unknown key is
\* skipped, a node the field's type cannot take is a type error
decodeEntry(r, e) ==
    LET f == FieldOf(e.key)
        n == e.val
    IN  IF f = "-" THEN r
        ELSE IF f \in {"Title", "DueIn", "Crontab"} THEN
            IF IsList(n) THEN [r EXCEPT !.err = TRUE]
            ELSE [r EXCEPT !.data[f] = Raw(n)]
        ELSE IF f = "Confidential" THEN
            IF IsBool(n) THEN [r EXCEPT !.data[f] = n.bool] ELSE [r EXCEPT !.err = TRUE]
        ELSE IF f = "NextTime" THEN
            IF IsStamp(n) THEN [r EXCEPT !.data[f] = n.time] ELSE [r EXCEPT !.err = TRUE]
        ELSE IF IsList(n) THEN [r EXCEPT !.data[f] = Slice(n.list)]
        ELSE [r EXCEPT !.err = TRUE]

RECURSIVE decodeYaml(_, _, _)
decodeYaml(r, yaml, i) ==
    IF i > Len(yaml) THEN r ELSE decodeYaml(decodeEntry(r, yaml[i]), yaml, i + 1)

\* frontmatter.Unmarshal(contents, data): the front-matter block is decoded
\* into the struct, the body goes to the field tagged fm:"content"
frontmatterUnmarshal(contents, data) ==
    IF contents.malformed THEN [err |-> TRUE, data |-> data]
    ELSE LET r == decodeYaml([err |-> FALSE, data |-> data], contents.yaml, 1)
         IN  [r EXCEPT !.data.Description = contents.content]

\* parseMetadata(contents): (data, nil) or (nil, err)
parseMetadata(contents) ==
    LET r == frontmatterUnmarshal(contents, ZeroMetadata)
    IN  IF r.err THEN [err |-> TRUE, data |-> ZeroMetadata] ELSE r

Entry(k, v) == [key |-> k, val |-> v]

\* front-matter entries of the model: the ones of Test_parseMetadata and of the
\* README, and a nexttime entry
EntryUniverse ==
    {Entry("title", Str("Test Title")), Entry("test", Str("test")),
     Entry("confidential", Bool(TRUE)), Entry("confidential", Bool(FALSE)),
     Entry("assignees", List(<<>>)), Entry("assignees", List(<<"assignee1">>)),
     Entry("assignees", List(<<"assignee1", "assignee2">>)),
     Entry("assignees", List(<<"assignee2", "assignee1">>)),
     Entry("labels", List(<<"label1">>)), Entry("labels", List(<<"label1", "label2">>)),
     Entry("labels", List(<<"label2", "label1">>)),
     Entry("duein", Str("24h")), Entry("crontab", Str("@daily")),
     Entry("nexttime", Stamp(Date(1, 0, 0))), Entry("nexttime", Str("soon"))}

\* YAML mappings: sequences of entries with pairwise different keys
Mappings ==
    {y \in UNION {[1 .. n -> EntryUniverse] : n \in 0 .. MaxEntries} :
        \A i, j \in DOMAIN y : i # j => y[i].key # y[j].key}

Contents ==
    [malformed : {FALSE}, yaml : Mappings, content : {"", "Test Description"}]
        \cup {[malformed |-> TRUE, yaml |-> <<>>, content |-> ""]}

InitParse ==
    /\ IdleMain
    /\ pc = "call"
    /\ arg \in Contents
    /\ ret = <<>>

CallParseMetadata ==
    /\ pc = "call"
    /\ ret' = <<parseMetadata(arg)>>
    /\ pc' = "ret"
    /\ UNCHANGED <<mainVars, arg>>

NextParse == CallParseMetadata

SpecParse == InitParse /\ [][NextParse]_vars

\* the node the front matter gives for key k (the mapping has it at most once)
Present(k) == \E i \in DOMAIN arg.yaml : arg.yaml[i].key = k
NodeOf(k) == arg.yaml[CHOOSE i \in DOMAIN arg.yaml : arg.yaml[i].key = k].val

\* C8: parseMetadata of a well-formed template succeeds and sets exactly the
\* recognized keys that are present (title, confidential, assignees, labels,
\* duein, crontab) to their values, lists in input order; the description is
\* the body; unrecognized keys are ignored and every absent field, and
\* NextTime, keeps its zero value.
C8_ParseSetsExactlyRecognizedKeys ==
    (pc = "ret" /\ ~arg.malformed) =>
        LET d == ret[1].data IN
        /\ ~ret[1].err
        /\ d.Title = (IF Present("title") THEN NodeOf("title").str ELSE "")
        /\ d.DueIn = (IF Present("duein") THEN NodeOf("duein").str ELSE "")
        /\ d.Crontab = (IF Present("crontab") THEN NodeOf("crontab").str ELSE "")
        /\ d.Confidential = (IF Present("confidential") THEN NodeOf("confidential").bool ELSE FALSE)
        /\ d.Assignees = (IF Present("assignees") THEN Slice(NodeOf("assignees").list) ELSE NilList)
        /\ d.Labels = (IF Present("labels") THEN Slice(NodeOf("labels").list) ELSE NilList)
        /\ d.Description = arg.content
        /\ d.NextTime = ZeroTime

----------------------------------------------------------------------------
(* getLastRunTime *)

\* a *time.Time: nil, or a pointer to t
NilTime == <<>>
Ptr(t) == <<t>>

Job(name, finishedAt) == [Name |-> name, FinishedAt |-> finishedAt]

\* index of the first job named jobName, 0 when there is none
RECURSIVE firstJob(_, _, _)
firstJob(jobs, jobName, j) ==
    IF j > Len(jobs) THEN 0
    ELSE IF jobs[j].Name = jobName THEN j
    ELSE firstJob(jobs, jobName, j + 1)

\* a fallback that returns the zero time.Time instead of the epoch
noLastRunZeroTime == [kind |-> "ok", time |-> ZeroTime, found |-> FALSE]

\* return time.Unix(0, 0), nil: no pipeline has a job of that name
noLastRun == [kind |-> "ok", time |-> Epoch, found |-> FALSE]

\* the loop over pipelineInfos, from pipeline i on
RECURSIVE scanPipelines(_, _, _)
scanPipelines(pipelines, jobName, i) ==
    IF i > Len(pipelines) THEN noLastRun
    ELSE IF pipelines[i].err THEN [kind |-> "err", time |-> Epoch, found |-> FALSE]
    ELSE LET j == firstJob(pipelines[i].jobs, jobName, 1) IN
         IF j = 0 THEN scanPipelines(pipelines, jobName, i + 1)
         ELSE IF pipelines[i].jobs[j].FinishedAt = NilTime
              THEN [kind |-> "panic", time |-> Epoch, found |-> TRUE]
              ELSE [kind |-> "ok", time |-> pipelines[i].jobs[j].FinishedAt[1], found |-> TRUE]

\* getLastRunTime() against the answers resp of the API: resp.err is the failure
\* of NewClient or ListProjectPipelines, pipelines[i].err that of ListPipelineJobs.
\* kind is "ok" (time, nil), "err" (time.Unix(0, 0), err) or "panic" (the
\* dereference of a nil FinishedAt).
getLastRunTime(resp, jobName) ==
    IF resp.err THEN [kind |-> "err", time |-> Epoch, found |-> FALSE]
    ELSE scanPipelines(resp.pipelines, jobName, 1)

SeqsUpTo(S, n) == UNION {[1 .. k -> S] : k \in 0 .. n}

\* the job name of the README's pipeline, and another job of the project
JobNames == {"recurring issues", "build"}

\* finish timestamps of earlier jobs
FinishTimes == {Date(1, 0, 0), Date(1, 0, 1)}

JobUniverse == {Job(n, f) : n \in JobNames, f \in {NilTime} \cup {Ptr(t) : t \in FinishTimes}}

PipelineUniverse ==
    {[err |-> TRUE, jobs |-> <<>>]} \cup [err : {FALSE}, jobs : SeqsUpTo(JobUniverse, MaxJobs)]

Responses ==
    {[err |-> TRUE, pipelines |-> <<>>]}
        \cup [err : {FALSE}, pipelines : SeqsUpTo(PipelineUniverse, MaxPipelines)]

InitLastRun ==
    /\ IdleMain
    /\ pc = "call"
    /\ arg \in [resp : Responses, ciJobName : {"recurring issues"}]
    /\ ret = <<>>

CallGetLastRunTime ==
    /\ pc = "call"
    /\ ret' = <<getLastRunTime(arg.resp, arg.ciJobName)>>
    /\ pc' = "ret"
    /\ UNCHANGED <<mainVars, arg>>

NextLastRun == CallGetLastRunTime

SpecLastRun == InitLastRun /\ [][NextLastRun]_vars

\* pipeline i is listed without error and has a job named ciJobName
HasMatch(i) ==
    /\ ~arg.resp.pipelines[i].err
    /\ \E j \in DOMAIN arg.resp.pipelines[i].jobs :
           arg.resp.pipelines[i].jobs[j].Name = arg.ciJobName

\* the job listing of pipeline i is requested: no earlier pipeline failed or matched
Listed(i) ==
    \A k \in 1 .. (i - 1) : ~arg.resp.pipelines[k].err /\ ~HasMatch(k)

\* C4: getLastRunTime returns the finish timestamp of the first job named
\* ciJobName of the first pipeline, in returned order, that has such a job,
\* whatever that job's state (also when it has no finish timestamp); the epoch
\* and no error when no returned pipeline has such a job; an error when a list
\* call fails.
C4_LastRunTimeOfFirstMatch ==
    pc = "ret" =>
        LET r == ret[1]
            ps == arg.resp.pipelines
        IN
        /\ arg.resp.err => r.kind = "err"
        /\ \A i \in DOMAIN ps :
               /\ (Listed(i) /\ ps[i].err) => r.kind = "err"
               /\ (Listed(i) /\ HasMatch(i)) =>
                      LET j == Min({k \in DOMAIN ps[i].jobs : ps[i].jobs[k].Name = arg.ciJobName})
                      IN  /\ r.kind = "ok"
                          /\ ps[i].jobs[j].FinishedAt # NilTime => r.time = ps[i].jobs[j].FinishedAt[1]
        /\ (~arg.resp.err /\ \A i \in DOMAIN ps : ~ps[i].err /\ ~HasMatch(i)) =>
               r.kind = "ok" /\ r.time = Epoch

----------------------------------------------------------------------------
(* createIssue *)

\* time.ParseDuration on the duein strings of the model; "24h" is one day
timeParseDuration(s) ==
    CASE s = "24h" -> [err |-> FALSE, d |-> SlotsPerDay]
      [] s = "48h" -> [err |-> FALSE, d |-> 2 * SlotsPerDay]
      [] s = "-24h" -> [err |-> FALSE, d |-> 0 - SlotsPerDay]
      [] OTHER -> [err |-> TRUE, d |-> 0]

\* gitlab.ISOTime(t): a date, sent as 2006-01-02; the time of day is dropped
ISOTime(t) == [year |-> Year(t), day |-> Day(t)]

\* a *gitlab.ISOTime
NilDate == <<>>

NoIssue == <<>>

\* What the API calls of createIssue answer: "ok", or the failure of
\* NewClient ("client"), GetProject ("project") or CreateIssue ("create")
ApiOutcomes == {"ok", "client", "project", "create"}

\* a createIssue that leaves the due date out of the request
createIssueNoDueDate(data, api) ==
    IF api \in {"client", "project"} THEN [err |-> api, issue |-> NoIssue]
    ELSE IF data.DueIn # "" /\ timeParseDuration(data.DueIn).err
         THEN [err |-> "duein", issue |-> NoIssue]
    ELSE IF api = "create" THEN [err |-> api, issue |-> NoIssue]
    ELSE [err |-> "",
          issue |-> <<[Title |-> data.Title, Description |-> data.Description,
                       Confidential |-> data.Confidential, CreatedAt |-> data.NextTime,
                       DueDate |-> NilDate]>>]

\* createIssue(data): err is "" for nil; issue is the issue the tracker
\* created, none on an error
createIssue(data, api) ==
    IF api \in {"client", "project"} THEN [err |-> api, issue |-> NoIssue]
    ELSE IF data.DueIn # "" /\ timeParseDuration(data.DueIn).err
         THEN [err |-> "duein", issue |-> NoIssue]
    ELSE IF api = "create" THEN [err |-> api, issue |-> NoIssue]
    ELSE [err |-> "",
          issue |-> <<[Title |-> data.Title, Description |-> data.Description,
                       Confidential |-> data.Confidential, CreatedAt |-> data.NextTime,
                       DueDate |-> IF data.DueIn # ""
                                   THEN <<ISOTime(data.NextTime + timeParseDuration(data.DueIn).d)>>
                                   ELSE NilDate]>>]

----------------------------------------------------------------------------
(* processIssueFile *)

\* t.Before(u), taking equal instants as before
NotAfter(t, u) == t <= u

\* data.NextTime.Before(time.Now())
isDue(nextTime, nowT) == Before(nextTime, nowT)

NoExpr == [years |-> {}, days |-> {}, slots |-> {}]

Outcome(o, e, d, x, due, i) ==
    [outcome |-> o, err |-> e, data |-> d, expr |-> x, due |-> due, issue |-> i]

\* The WalkFunc processIssueFile(lastTime) called on directory entry f with the
\* clock at nowT. outcome: "walk" (log.Fatal on the walk's own error), "skip"
\* (not .md), "read", "parse", "cron" (the error returned), "created",
\* "create" (createIssue's error returned), "notdue".
processIssueFile(f, lastTime, nowT, api) ==
    IF f.walkErr THEN Outcome("walk", TRUE, ZeroMetadata, NoExpr, FALSE, NoIssue)
    ELSE IF f.ext # ".md" THEN Outcome("skip", FALSE, ZeroMetadata, NoExpr, FALSE, NoIssue)
    ELSE IF ~f.readable THEN Outcome("read", TRUE, ZeroMetadata, NoExpr, FALSE, NoIssue)
    ELSE LET p == parseMetadata(f.contents) IN
    IF p.err THEN Outcome("parse", TRUE, ZeroMetadata, NoExpr, FALSE, NoIssue)
    ELSE LET c == cronexprParse(p.data.Crontab) IN
    IF c.err THEN Outcome("cron", TRUE, p.data, NoExpr, FALSE, NoIssue)
    ELSE LET data == [p.data EXCEPT !.NextTime = Next(c.expr, lastTime)] IN
    IF isDue(data.NextTime, nowT)
    THEN LET r == createIssue(data, api) IN
         IF r.err # "" THEN Outcome("create", TRUE, data, c.expr, TRUE, NoIssue)
         ELSE Outcome("created", FALSE, data, c.expr, TRUE, r.issue)
    ELSE Outcome("notdue", FALSE, data, c.expr, FALSE, NoIssue)

\* the directory entries of the model
Template(yaml, body) == [malformed |-> FALSE, yaml |-> yaml, content |-> body]
File(ext, readable, contents) ==
    [walkErr |-> FALSE, ext |-> ext, readable |-> readable, contents |-> contents]

DailyTemplate ==
    Template(<<Entry("title", Str("Daily reminder")), Entry("confidential", Bool(FALSE)),
               Entry("duein", Str("24h")), Entry("crontab", Str("@daily"))>>,
             "This is your daily reminder")
HourlyTemplate ==
    Template(<<Entry("title", Str("Hourly")), Entry("confidential", Bool(TRUE)),
               Entry("crontab", Str("0 * * * *"))>>, "")
BadDueInTemplate ==
    Template(<<Entry("title", Str("Bad duein")), Entry("duein", Str("tomorrow")),
               Entry("crontab", Str("0 * * * *"))>>, "")
PastTemplate ==
    Template(<<Entry("title", Str("Once, in 1970")), Entry("duein", Str("-24h")),
               Entry("crontab", Str("0 0 1 1 * 1970"))>>, "")
FutureTemplate ==
    Template(<<Entry("title", Str("Once, in 2099")), Entry("crontab", Str("0 0 1 1 * 2099"))>>, "")
NotCronTemplate ==
    Template(<<Entry("title", Str("No schedule")), Entry("crontab", Str("not-a-cron"))>>, "")
MalformedTemplate == [malformed |-> TRUE, yaml |-> <<>>, content |-> ""]

DirEntries ==
    {[walkErr |-> TRUE, ext |-> "", readable |-> FALSE, contents |-> MalformedTemplate],
     File("", FALSE, MalformedTemplate),
     File(".md", FALSE, MalformedTemplate),
     File(".md", TRUE, MalformedTemplate),
     File(".md", TRUE, NotCronTemplate),
     File(".md", TRUE, DailyTemplate),
     File(".md", TRUE, HourlyTemplate),
     File(".md", TRUE, BadDueInTemplate),
     File(".md", TRUE, PastTemplate),
     File(".md", TRUE, FutureTemplate)}

----------------------------------------------------------------------------
(* main: one run *)

Settings == <<"GITLAB_API_TOKEN", "CI_API_V4_URL", "CI_PROJECT_ID", "CI_PROJECT_DIR", "CI_JOB_NAME">>
SettingNames == {Settings[i] : i \in DOMAIN Settings}

ValueOf(name) ==
    CASE name = "GITLAB_API_TOKEN" -> "glpat-token"
      [] name = "CI_API_V4_URL" -> "https://gitlab.example.com/api/v4"
      [] name = "CI_PROJECT_ID" -> "42"
      [] name = "CI_PROJECT_DIR" -> "/builds/group/project"
      [] OTHER -> "recurring issues"

\* os.Getenv for every required setting, set or not
Environments ==
    {[n \in SettingNames |-> IF n \in set THEN ValueOf(n) ELSE ""] : set \in SUBSET SettingNames}

\* The checks of main on the settings, in order: the setting log.Fatal names,
\* "" when every check passes. The last three checks test gitlabAPIToken.
configure(e) ==
    LET gitlabAPIToken == e["GITLAB_API_TOKEN"]
        ciAPIV4URL == e["CI_API_V4_URL"]
    IN  IF gitlabAPIToken = "" THEN "GITLAB_API_TOKEN"
        ELSE IF ciAPIV4URL = "" THEN "CI_API_V4_URL"
        ELSE IF gitlabAPIToken = "" THEN "CI_PROJECT_ID"
        ELSE IF gitlabAPIToken = "" THEN "CI_PROJECT_DIR"
        ELSE IF gitlabAPIToken = "" THEN "CI_JOB_NAME"
        ELSE ""

\* the environment of a pipeline job: GitLab sets the CI_* variables, the token
\* is a CI/CD variable of the project, created or not
JobEnvironments == {e \in Environments : \A n \in SettingNames \ {"GITLAB_API_TOKEN"} : e[n] # ""}

\* the wall clock of a run: the run takes place in year 1 of the calendar, after
\* the first instant of that year
NowTimes == {t \in Times : Year(t) = 1 /\ Date(1, 0, 0) < t}

\* finish timestamps the pipeline history can hold when the clock shows t
PastTimes(t) == {u \in Times : t - SlotsPerDay <= u /\ u <= t}

\* the answers of the API to the listing of pipelines and jobs when the clock shows t
RunResponses(t) ==
    {[err |-> TRUE, pipelines |-> <<>>],
     [err |-> FALSE, pipelines |-> <<>>],
     [err |-> FALSE, pipelines |-> <<[err |-> TRUE, jobs |-> <<>>]>>],
     [err |-> FALSE, pipelines |-> <<[err |-> FALSE, jobs |-> <<Job("build", Ptr(t))>>]>>],
     [err |-> FALSE, pipelines |-> <<[err |-> FALSE, jobs |-> <<Job("recurring issues", NilTime)>>]>>]}
    \cup {[err |-> FALSE,
           pipelines |-> <<[err |-> FALSE, jobs |-> <<Job("recurring issues", Ptr(u))>>]>>] :
              u \in PastTimes(t)}

InitMain(environments) ==
    /\ env \in environments
    /\ pc = "main"
    /\ fatalMsg = ""
    /\ apiResp = NoResp
    /\ lastRun = NoLastRun
    /\ visited = 0
    /\ now \in NowTimes
    /\ issues = <<>>
    /\ last = NoLast
    /\ runs = <<>>
    /\ arg = <<>>
    /\ ret = <<>>

\* main, lines 175-200: the settings are read and checked
Configure ==
    /\ pc = "main"
    /\ fatalMsg' = configure(env)
    /\ pc' = IF configure(env) # "" THEN "fatal" ELSE "lastrun"
    /\ UNCHANGED <<env, apiResp, lastRun, visited, now, issues, last, runs, arg, ret>>

\* main, lines 202-207: getLastRunTime, fatal on its error
ResolveLastRun ==
    /\ pc = "lastrun"
    /\ \E resp \in RunResponses(now) :
           LET r == getLastRunTime(resp, env["CI_JOB_NAME"]) IN
           /\ apiResp' = resp
           /\ lastRun' = r
           /\ pc' = CASE r.kind = "err" -> "fatal" [] r.kind = "panic" -> "panic" [] OTHER -> "walk"
           /\ fatalMsg' = IF r.kind = "err" THEN "getLastRunTime" ELSE fatalMsg
    /\ UNCHANGED <<env, visited, now, issues, last, runs, arg, ret>>

\* a walk that goes on to the next entry after an error
afterFileContinue(r) == "walk"

\* filepath.Walk stops at the first error the WalkFunc returns and main
\* log.Fatals it (lines 209-212); log.Fatal inside the WalkFunc ends the run too
afterFile(r) == IF r.err THEN "fatal" ELSE "walk"

\* filepath.Walk hands the next directory entry to processIssueFile(lastRunTime)
WalkFile ==
    /\ pc = "walk"
    /\ visited < MaxFiles
    /\ \E f \in DirEntries, t \in {now, now + 1} \cap NowTimes, api \in ApiOutcomes :
           LET r == processIssueFile(f, lastRun.time, t, api) IN
           /\ now' = t
           /\ visited' = visited + 1
           /\ issues' = issues \o r.issue
           /\ last' = [outcome |-> r.outcome, err |-> r.err, data |-> r.data, expr |-> r.expr,
                       due |-> r.due, nowAt |-> t, issuesBefore |-> issues]
           /\ pc' = afterFile(r)
           /\ fatalMsg' = IF r.err THEN r.outcome ELSE fatalMsg
    /\ UNCHANGED <<env, apiResp, lastRun, runs, arg, ret>>

\* filepath.Walk returns nil: "Run complete" (line 214)
RunComplete ==
    /\ pc = "walk"
    /\ pc' = "done"
    /\ UNCHANGED <<env, fatalMsg, apiResp, lastRun, visited, now, issues, last, runs, arg, ret>>

NextMain == Configure \/ ResolveLastRun \/ WalkFile \/ RunComplete

\* a run as a job of a pipeline
Init == InitMain(JobEnvironments)
Spec == Init /\ [][NextMain]_vars

\* a run in any environment
InitAnyEnv == InitMain(Environments)
SpecAnyEnv == InitAnyEnv /\ [][NextMain]_vars

----------------------------------------------------------------------------
(* Claims about one run *)

Processed == last.outcome # "none"

\* the latest file had a crontab that parsed, so its occurrence was compared to the clock
Evaluated == Processed /\ last.outcome \in {"created", "create", "notdue"}

\* C1 as stated: a template with a valid crontab is due (createIssue is called)
\* when its occurrence is not after the clock, an occurrence equal to the
\* clock included, and is skipped otherwise.
C1_DueWhenNotAfterNow ==
    Evaluated => (last.due <=> last.data.NextTime <= last.nowAt)

\* C1 as amended: a template with a valid crontab is due exactly when its
\* occurrence, the first after the last-run reference time, is strictly before
\* the clock; an occurrence equal to the clock is skipped.
C1_DueWhenStrictlyBeforeNow ==
    Evaluated =>
        /\ last.data.NextTime = Next(last.expr, lastRun.time)
        /\ last.due <=> last.data.NextTime < last.nowAt
        /\ last.due <=> last.outcome \in {"created", "create"}
        /\ last.outcome = "created" => Len(issues) = Len(last.issuesBefore) + 1

\* C1: an occurrence equal to the clock was skipped
C1_Witness ==
    /\ Evaluated
    /\ last.data.NextTime = last.nowAt
    /\ last.outcome = "notdue"
    /\ issues = last.issuesBefore

Missing(e) == {n \in SettingNames : e[n] = ""}

\* C2: when any of the five settings is unset, main ends with a fatal error
\* that names an unset setting before any API call, walk or issue creation.
C2_EveryMissingSettingIsFatal ==
    Missing(env) # {} =>
        /\ pc \in {"main", "fatal"}
        /\ pc = "fatal" => fatalMsg \in Missing(env)
        /\ apiResp = NoResp /\ lastRun = NoLastRun /\ visited = 0 /\ issues = <<>>

Failed == Processed /\ last.outcome \in {"walk", "read", "parse", "cron", "create"}

\* C3: when the processing of a file fails (unreadable, malformed front
\* matter, a crontab that does not parse, a duein that does not parse, an API
\* error), no issue is created for it, the run ends with an error and not with
\* "Run complete", no later file is visited, and the issues created before
\* remain.
C3Inv ==
    /\ Failed => (pc = "fatal" /\ fatalMsg # "" /\ issues = last.issuesBefore)
    /\ pc = "done" => ~Failed
\* C3: fail-fast, as a property of the run: C3Inv always holds, and once a
\* file has failed no step creates an issue, visits a file or ends the run well.
C3_FailFast ==
    /\ []C3Inv
    /\ [][Failed => (issues' = issues /\ visited' = visited /\ pc' = pc)]_vars

\* C3: a file failed after an issue had been created for an earlier one
C3_Witness ==
    /\ Failed
    /\ last.outcome = "cron"
    /\ Len(issues) = 1
    /\ visited = 2

\* the lookup found no job of the configured name
Fallback == lastRun.kind = "ok" /\ ~lastRun.found

\* C5 as stated: when the lookup finds no matching job the reference time is
\* the epoch and every template whose crontab parses is due in that run.
C5_FallbackMakesEveryTemplateDue ==
    Fallback => (lastRun.time = Epoch /\ (Evaluated => last.due))

\* C5 as amended: the reference time is the epoch, and a template whose
\* crontab parses is due exactly when its first occurrence after the epoch is
\* before the clock: every expression with an unrestricted year field and
\* every expression with no occurrence after the epoch (Next gives the zero
\* time) is due, an expression restricted to years after the current one is not.
C5_FallbackDueFromEpoch ==
    Fallback =>
        /\ lastRun.time = Epoch
        /\ Evaluated =>
               /\ last.data.NextTime = Next(last.expr, Epoch)
               /\ last.due <=> Next(last.expr, Epoch) < last.nowAt
               /\ last.expr.years = Years => last.due
               /\ (\A t \in Times : t > Epoch => ~Matches(last.expr, t)) => last.due
               /\ (\A y \in last.expr.years : y > Year(last.nowAt)) => ~last.due

\* C5: in a fallback run a template restricted to a later year was skipped
C5_Witness ==
    /\ Fallback
    /\ Evaluated
    /\ \A y \in last.expr.years : y > Year(last.nowAt)
    /\ last.outcome = "notdue"

\* C6: the issue createIssue submits for a template with occurrence T has
\* creation timestamp T (not the clock), the template's title, description and
\* confidentiality, the date of T plus the parsed duein as due date when duein
\* is set and no due date when it is empty; when duein does not parse no issue
\* is submitted.
C6_IssueFields ==
    /\ (Processed /\ last.outcome = "created") =>
           LET i == issues[Len(issues)]
               d == last.data
           IN  /\ issues = Append(last.issuesBefore, i)
               /\ i.CreatedAt = d.NextTime
               /\ i.CreatedAt < last.nowAt
               /\ i.Title = d.Title
               /\ i.Description = d.Description
               /\ i.Confidential = d.Confidential
               /\ d.DueIn = "" => i.DueDate = NilDate
               /\ d.DueIn # "" =>
                      /\ ~timeParseDuration(d.DueIn).err
                      /\ i.DueDate = <<ISOTime(d.NextTime + timeParseDuration(d.DueIn).d)>>
    /\ (Processed /\ last.due /\ last.data.DueIn # "" /\ timeParseDuration(last.data.DueIn).err) =>
           (last.outcome = "create" /\ issues = last.issuesBefore)

\* C6: an issue with a due date a day after its creation timestamp was created
C6_Witness ==
    /\ Processed
    /\ last.outcome = "created"
    /\ last.data.DueIn = "24h"
    /\ issues[Len(issues)].DueDate = <<ISOTime(last.data.NextTime + SlotsPerDay)>>
    /\ issues[Len(issues)].CreatedAt = last.data.NextTime
    /\ issues[Len(issues)].CreatedAt + 1 < last.nowAt

----------------------------------------------------------------------------
(* Scheduled runs: each run is a job of a pipeline; a run that completes      *)
(* becomes a successful pipeline whose job, named CI_JOB_NAME, carries the    *)
(* job's finish timestamp, and the next run finds it through getLastRunTime.  *)
(* arg is the template directory, the same in every run.                      *)

AllSet == [n \in SettingNames |-> ValueOf(n)]

\* the clock of the scheduled runs: from year 1 to the end of the calendar
SchedTimes == {t \in Times : Date(1, 0, 0) < t}

\* the finished successful pipelines, ordered by updated_at, latest first
HistoryResponse(rs) ==
    [err |-> FALSE,
     pipelines |-> [i \in 1 .. Len(rs) |->
                      [err |-> FALSE,
                       jobs |-> <<Job(ValueOf("CI_JOB_NAME"), Ptr(rs[Len(rs) + 1 - i].finish))>>]]]

ScheduledTemplates == {DailyTemplate, HourlyTemplate, PastTemplate, FutureTemplate}

InitSched ==
    /\ env = AllSet
    /\ pc = "main"
    /\ fatalMsg = ""
    /\ apiResp = NoResp
    /\ lastRun = NoLastRun
    /\ visited = 0
    /\ now \in {t \in SchedTimes : Year(t) = 1}
    /\ issues = <<>>
    /\ last = NoLast
    /\ runs = <<>>
    /\ arg \in {<<File(".md", TRUE, c)>> : c \in ScheduledTemplates}
    /\ ret = <<>>

\* main, lines 202-207, against the pipeline history
SchedResolveLastRun ==
    /\ pc = "lastrun"
    /\ LET r == getLastRunTime(HistoryResponse(runs), env["CI_JOB_NAME"]) IN
       /\ apiResp' = HistoryResponse(runs)
       /\ lastRun' = r
       /\ pc' = CASE r.kind = "err" -> "fatal" [] r.kind = "panic" -> "panic" [] OTHER -> "walk"
       /\ fatalMsg' = IF r.kind = "err" THEN "getLastRunTime" ELSE fatalMsg
    /\ UNCHANGED <<env, visited, now, issues, last, runs, arg, ret>>

\* filepath.Walk hands the next template of the directory to processIssueFile;
\* the API answers every call
SchedWalkFile ==
    /\ pc = "walk"
    /\ visited < Len(arg)
    /\ \E t \in {now, now + 1} \cap SchedTimes :
           LET r == processIssueFile(arg[visited + 1], lastRun.time, t, "ok") IN
           /\ now' = t
           /\ visited' = visited + 1
           /\ issues' = issues \o r.issue
           /\ last' = [outcome |-> r.outcome, err |-> r.err, data |-> r.data, expr |-> r.expr,
                       due |-> r.due, nowAt |-> t, issuesBefore |-> issues]
           /\ pc' = afterFile(r)
           /\ fatalMsg' = IF r.err THEN r.outcome ELSE fatalMsg
    /\ UNCHANGED <<env, apiResp, lastRun, runs, arg, ret>>

\* filepath.Walk returns nil: "Run complete"
SchedRunComplete ==
    /\ pc = "walk"
    /\ visited = Len(arg)
    /\ pc' = "done"
    /\ UNCHANGED <<env, fatalMsg, apiResp, lastRun, visited, now, issues, last, runs, arg, ret>>

\* the job finishes, after the due check, and its pipeline succeeds
JobFinishes ==
    /\ pc = "done"
    /\ Len(runs) < MaxRuns
    /\ \E f \in {now + 1, now + 2} \cap SchedTimes :
           /\ now' = f
           /\ runs' = Append(runs, [check |-> last.nowAt, finish |-> f])
    /\ pc' = "finished"
    /\ UNCHANGED <<env, fatalMsg, apiResp, lastRun, visited, issues, last, arg, ret>>

\* the schedule starts the next pipeline
NextRunStarts ==
    /\ pc = "finished"
    /\ \E t \in {now, now + 1} \cap SchedTimes : now' = t
    /\ pc' = "main"
    /\ visited' = 0
    /\ last' = NoLast
    /\ UNCHANGED <<env, fatalMsg, apiResp, lastRun, issues, runs, arg, ret>>

NextSched ==
    \/ Configure
    \/ SchedResolveLastRun
    \/ SchedWalkFile
    \/ SchedRunComplete
    \/ JobFinishes
    \/ NextRunStarts

SpecSched == InitSched /\ [][NextSched]_vars

\* the schedule of the template of the directory
Schedule == cronexprParse(parseMetadata(arg[1].contents).data.Crontab).expr

Occurrences(from, to) == {t \in Times : from < t /\ t <= to /\ Matches(Schedule, t)}

Issued(t) == \E i \in DOMAIN issues : issues[i].CreatedAt = t

\* the pipeline runs at least as often as the schedule fires: at most one
\* occurrence falls between the due checks of consecutive runs
RunsOftenEnough ==
    \A k \in 1 .. (Len(runs) - 1) :
        Cardinality(Occurrences(runs[k].check, runs[k + 1].check)) <= 1

\* C9: when the pipeline runs at least as often as the schedule fires and
\* every run completes, every occurrence that has elapsed gets an issue with
\* that occurrence as creation timestamp. An occurrence that elapsed before the
\* due check of a run that has completed is never created later (every later
\* reference time is after it), so it must have its issue by then. Stated for
\* the schedules that fire every year.
C9_NoOccurrenceSkipped ==
    (Len(runs) >= 2 /\ RunsOftenEnough /\ Schedule.years = Years) =>
        \A t \in Occurrences(runs[1].check, runs[Len(runs)].check - 1) : Issued(t)

\* C10: a run creates at most one issue for a template file, and over runs that
\* all complete no two issues of a template have the same creation timestamp.
C10_NoDuplicateIssues ==
    /\ Len(issues) <= Len(runs) + 1
    /\ \A i, j \in DOMAIN issues : i # j => issues[i].CreatedAt # issues[j].CreatedAt

====
